---- MODULE Spec2Model ----
(***************************************************************************)
(* Tic-tac-toe minimax engine (src/src/state.rs, src/src/minimax.rs).      *)
(*                                                                         *)
(* A board is the 3x3 array State.field, written here as a tuple of three  *)
(* rows of three cells; source index field[x][y] (0-based) is              *)
(* field[x + 1][y + 1] here.  A CheckBox is represented by its i8          *)
(* discriminant: Empty = 0, X = -10, O = 10.  An Option<T> is a sequence   *)
(* of length at most one: << >> is None, <<v>> is Some(v).                 *)
(***************************************************************************)
EXTENDS Integers, Sequences, FiniteSets, TLC

(***************************************************************************)
(* state.rs : CheckBox                                                     *)
(***************************************************************************)
Empty == 0

X == -10

O == 10

CheckBox == {Empty, X, O}

\* Side length of the board, [[CheckBox; 3]; 3].
N == 3

Idx == 0 .. (N - 1)

\* The largest search depth that can matter: one ply per cell.
FullDepth == N * N

I8Min == -128

I8Max == 127

None == << >>

Some(v) == <<v>>

IsNone(o) == Len(o) = 0

IsSome(o) == Len(o) = 1

Unwrap(o) == o[1]

\* next_player handing the turn back to the same player.
next_player_same(self) == self

next_player(self) ==
    CASE self = Empty -> Empty
      [] self = X -> O
      [] self = O -> X

(***************************************************************************)
(* state.rs : State                                                        *)
(***************************************************************************)
initial == << <<Empty, Empty, Empty>>,
              <<Empty, Empty, Empty>>,
              <<Empty, Empty, Empty>> >>

get(field, x, y) == field[x + 1][y + 1]

\* ret.field[row][col] = player on a clone of the board.
set(field, x, y, player) ==
    [field EXCEPT ![x + 1] = [@ EXCEPT ![y + 1] = player]]

row_score(field, row) ==
    LET r == field[row + 1]
        first == r[1]
    IN  IF \A i \in 1 .. N : r[i] = first THEN first ELSE 0

column_score(field, col) ==
    LET first == get(field, 0, col)
    IN  IF \E i \in 1 .. (N - 1) : get(field, i, col) # first THEN 0 ELSE first

main_diagonal_score(field) ==
    LET center == get(field, 1, 1)
    IN  IF \E i \in Idx : get(field, i, i) # center THEN 0 ELSE center

\* cross_diagonal_score as a copy of main_diagonal_score: field[i][i].
cross_diagonal_score_as_main(field) ==
    LET center == get(field, 1, 1)
    IN  IF \E i \in Idx : get(field, i, i) # center THEN 0 ELSE center

cross_diagonal_score(field) ==
    LET center == get(field, 1, 1)
    IN  IF \E i \in Idx : get(field, i, N - i - 1) # center THEN 0 ELSE center

\* return_if_nonzero!(..) for each line in turn, then 0.
score(field) ==
    IF row_score(field, 0) # 0 THEN row_score(field, 0)
    ELSE IF row_score(field, 1) # 0 THEN row_score(field, 1)
    ELSE IF row_score(field, 2) # 0 THEN row_score(field, 2)
    ELSE IF column_score(field, 0) # 0 THEN column_score(field, 0)
    ELSE IF column_score(field, 1) # 0 THEN column_score(field, 1)
    ELSE IF column_score(field, 2) # 0 THEN column_score(field, 2)
    ELSE IF main_diagonal_score(field) # 0 THEN main_diagonal_score(field)
    ELSE IF cross_diagonal_score(field) # 0 THEN cross_diagonal_score(field)
    ELSE 0

\* The iterator without the test for Empty: a board for every cell.
yielded_overwriting(field, player, row, col) ==
    <<set(field, row, col, player)>>

\* SubsequentStatesIterator::next at position (row, col): the board yielded
\* when the cell is Empty, nothing when it is not.
yielded(field, player, row, col) ==
    IF get(field, row, col) = Empty
    THEN <<set(field, row, col, player)>>
    ELSE << >>

\* The columns of a row walked from right to left.
row_states_right_to_left(field, player, row) ==
    yielded(field, player, row, 2) \o yielded(field, player, row, 1)
        \o yielded(field, player, row, 0)

\* The boards the iterator yields while self.row = row: col runs from 0 to 3.
row_states(field, player, row) ==
    yielded(field, player, row, 0) \o yielded(field, player, row, 1)
        \o yielded(field, player, row, 2)

\* subsequent_states(player), collected: the iterator starts at row 0, col 0
\* and ends at row 3.  Its assert!(player != CheckBox::Empty) holds at every
\* call the engine makes: the player of the first node is X and next_player
\* keeps it X or O.
subsequent_states(field, player) ==
    row_states(field, player, 0) \o row_states(field, player, 1)
        \o row_states(field, player, 2)

(***************************************************************************)
(* minimax.rs : MiniMaxNode                                                *)
(***************************************************************************)
\* MiniMaxNode::new: a node whose children have not been computed.
MiniMaxNode(state, player) ==
    [state |-> state, player |-> player, children |-> None]

\* MiniMaxNode::score not looking at the board: every node counts as
\* undecided.
node_score_undecided(self) == 0

\* MiniMaxNode::score
node_score(self) == score(self.state)

\* .map(|s| MiniMaxNode::new(s, player)).collect() from element i onwards.
RECURSIVE map_new(_, _, _)
map_new(states, player, i) ==
    IF i > Len(states) THEN << >>
    ELSE <<MiniMaxNode(states[i], player)>> \o map_new(states, player, i + 1)

\* ensure_children without the test of the score: a decided board is
\* expanded like any other.
computed_children_ignoring_score(self) ==
    map_new(subsequent_states(self.state, self.player),
            next_player(self.player), 1)

\* The children ensure_children computes for a node that has none yet.
computed_children(self) ==
    IF node_score(self) # 0
    THEN << >>
    ELSE map_new(subsequent_states(self.state, self.player),
                 next_player(self.player), 1)

\* ensure_children without the is_none() test: the children are computed
\* afresh at every call.
ensure_children_recomputed(self) ==
    [self EXCEPT !.children = Some(computed_children(self))]

\* The node after ensure_children: children are computed once and kept.
ensure_children(self) ==
    IF IsNone(self.children)
    THEN [self EXCEPT !.children = Some(computed_children(self))]
    ELSE self

\* take() as a plain copy of state and player: the computed subtree is not
\* carried over.
take_without_children(self) == [self EXCEPT !.children = None]

\* take(): the node returned carries the children of self ...
take(self) == self

\* ... and self is left with children = None.
after_take(self) == [self EXCEPT !.children = None]

\* The sign test the wrong way round.
is_maximizing_negative(player) == player < 0

\* self.player as i8 > 0
is_maximizing(player) == player > 0

initial_best(maximizing) == IF maximizing THEN I8Min ELSE I8Max

Max(a, b) == IF a > b THEN a ELSE b

Min(a, b) == IF a < b THEN a ELSE b

\* best = if maximizing { cmp::max(val, best) } else { cmp::min(val, best) }
fold_best(maximizing, val, best) ==
    IF maximizing THEN Max(val, best) ELSE Min(val, best)

\* The early return testing each side against its own bound instead of the
\* opposing one.
cutoff_own_bound(maximizing, best, alpha, beta, prune) ==
    IF maximizing THEN best > alpha /\ prune ELSE best < beta /\ prune

\* The early return with the prune flag negated.
cutoff_flag_negated(maximizing, best, alpha, beta, prune) ==
    IF maximizing THEN best > beta /\ ~prune ELSE best < alpha /\ ~prune

\* The early return of the fold over the children.
cutoff(maximizing, best, alpha, beta, prune) ==
    IF maximizing THEN best > beta /\ prune ELSE best < alpha /\ prune

next_alpha(maximizing, best, alpha) ==
    IF maximizing THEN Max(best, alpha) ELSE alpha

next_beta(maximizing, best, beta) ==
    IF maximizing THEN beta ELSE Min(best, beta)

replace_child(self, i, child) ==
    [self EXCEPT !.children = Some([Unwrap(@) EXCEPT ![i] = child])]

\* The for loop of minimax carries the record
\* [node, best, alpha, beta, visited, returned]; returned is set by the early
\* return, after which no further child is looked at.
\*
\* One iteration of the for loop on child number i, after child.minimax(..)
\* has returned r: the visit count and the child's subtree are kept, best is
\* folded, then comes the early return, which leaves alpha and beta as they
\* are, or the new window.
minimax_iteration(st, i, r, prune) ==
    LET maximizing == is_maximizing(st.node.player)
        best == fold_best(maximizing, r.val, st.best)
        returned == cutoff(maximizing, best, st.alpha, st.beta, prune)
    IN  [st EXCEPT !.visited = @ + r.visited,
                   !.node = replace_child(@, i, r.node),
                   !.best = best,
                   !.returned = returned,
                   !.alpha = IF returned THEN @ ELSE next_alpha(maximizing, best, @),
                   !.beta = IF returned THEN @ ELSE next_beta(maximizing, best, @)]

\* MiniMaxNode::minimax.  The result is [val, visited, node]: the returned
\* value, the number of increments of *nodes_visited, and the node (with the
\* children the call has computed) afterwards.
RECURSIVE minimax(_, _, _, _, _)
RECURSIVE minimax_expanded(_, _, _, _, _)
RECURSIVE minimax_fold(_, _, _, _)
\* minimax looking one ply past max_depth = 0 wherever the children of the
\* node are already computed.
minimax_through_cache(self, max_depth, alpha, beta, prune) ==
    IF max_depth = 0 /\ IsNone(self.children)
    THEN [val |-> node_score(self), visited |-> 1, node |-> self]
    ELSE IF max_depth = 0
    THEN minimax_expanded(self, 1, alpha, beta, prune)
    ELSE minimax_expanded(ensure_children(self), max_depth, alpha, beta, prune)

\* MiniMaxNode::minimax
minimax(self, max_depth, alpha, beta, prune) ==
    IF max_depth = 0
    THEN [val |-> node_score(self), visited |-> 1, node |-> self]
    ELSE minimax_expanded(ensure_children(self), max_depth, alpha, beta, prune)

\* minimax once self.ensure_children() has run.
minimax_expanded(self, max_depth, alpha, beta, prune) ==
    IF Len(Unwrap(self.children)) = 0
    THEN [val |-> score(self.state), visited |-> 1, node |-> self]
    ELSE minimax_fold([node |-> self,
                       best |-> initial_best(is_maximizing(self.player)),
                       alpha |-> alpha, beta |-> beta,
                       visited |-> 1, returned |-> FALSE],
                      1, max_depth, prune)

\* The for loop of minimax from child number i (1-based) onwards, and the
\* value returned when it is left.
minimax_fold(st, i, max_depth, prune) ==
    IF st.returned \/ i > Len(Unwrap(st.node.children))
    THEN [val |-> st.best, visited |-> st.visited, node |-> st.node]
    ELSE minimax_fold(minimax_iteration(st, i,
                                        minimax(Unwrap(st.node.children)[i],
                                                max_depth - 1, st.alpha, st.beta, prune),
                                        prune),
                      i + 1, max_depth, prune)

(***************************************************************************)
(* minimax.rs : MiniMaxTree                                                *)
(***************************************************************************)
\* The comparison made non-strict: a later child of equal value wins.
child_is_best_so_far_or_equal(maximizing, child_score, best) ==
    IF maximizing THEN child_score >= best ELSE child_score <= best

child_is_best_so_far(maximizing, child_score, best) ==
    IF maximizing THEN child_score > best ELSE child_score < best

\* One iteration of the for loop of find_move_index_internal on child number
\* i (1-based), after child.minimax(..) has returned r:
\* if child_is_best_so_far { best = child_score; alpha or beta = best;
\* best_move = Some(i); }.  Indices handed out are 0-based, as enumerate()
\* numbers them.
find_iteration(st, i, r) ==
    LET maximizing == is_maximizing(st.node.player)
        better == child_is_best_so_far(maximizing, r.val, st.best)
    IN  [st EXCEPT !.visited = @ + r.visited,
                   !.node = replace_child(@, i, r.node),
                   !.best = IF better THEN r.val ELSE @,
                   !.best_move = IF better THEN Some(i - 1) ELSE @,
                   !.alpha = IF better /\ maximizing THEN r.val ELSE @,
                   !.beta = IF better /\ ~maximizing THEN r.val ELSE @]

\* The for loop of find_move_index_internal from child number i onwards, and
\* the value returned after it.  The loop carries the record
\* [node, best, best_move, alpha, beta, visited].
RECURSIVE find_fold(_, _, _, _)
find_fold(st, i, max_depth, prune) ==
    IF i > Len(Unwrap(st.node.children))
    THEN [move |-> st.best_move, visited |-> st.visited, node |-> st.node]
    ELSE find_fold(find_iteration(st, i,
                                  minimax(Unwrap(st.node.children)[i],
                                          max_depth - 1, st.alpha, st.beta, prune)),
                   i + 1, max_depth, prune)

\* find_move_index_internal once ensure_children() has run.
find_expanded(self, max_depth, prune) ==
    find_fold([node |-> self,
               best |-> initial_best(is_maximizing(self.player)),
               best_move |-> None,
               alpha |-> I8Min, beta |-> I8Max, visited |-> 0],
              1, max_depth, prune)

\* The early return of find_move_index_internal.
search_refused(self, max_depth) == node_score(self) # 0 \/ max_depth = 0

find_move_index_internal(self, max_depth, prune) ==
    IF search_refused(self, max_depth)
    THEN [move |-> None, visited |-> 0, node |-> self]
    ELSE find_expanded(ensure_children(self), max_depth, prune)

\* The legality check without the test of the score.
choose_refused_occupied_only(self, x, y) == get(self.state, x, y) # Empty

\* The legality check testing the score for a win of O only.
choose_refused_positive_score(self, x, y) ==
    get(self.state, x, y) # Empty \/ node_score(self) > 0

\* The legality check with && in place of ||.
choose_refused_conjunction(self, x, y) ==
    get(self.state, x, y) # Empty /\ node_score(self) # 0

\* The legality check without the test of the cell.
choose_refused_score_only(self, x, y) == node_score(self) # 0

\* The legality check at the head of choose().
choose_refused(self, x, y) ==
    get(self.state, x, y) # Empty \/ node_score(self) # 0

\* The early return placed after take(): the children are gone.
refusal_after_take(self) ==
    [result |-> "Err", panic |-> "", fallback |-> FALSE,
     node |-> [self EXCEPT !.children = None]]

\* return Err(()): nothing has been touched.
refusal(self) ==
    [result |-> "Err", panic |-> "", fallback |-> FALSE, node |-> self]

\* The closure with the coordinates swapped.
is_chosen_transposed(state, x, y, current_player) ==
    get(state, y, x) = current_player

\* |s| s.state.get(x, y) == current_player
is_chosen(state, x, y, current_player) == get(state, x, y) = current_player

\* subsequent_states(..).find(|s| ..): the first board from position i on
\* with the mover's mark at (x, y), as an Option.
RECURSIVE find_first(_, _, _, _, _)
find_first(states, x, y, current_player, i) ==
    IF i > Len(states) THEN None
    ELSE IF is_chosen(states[i], x, y, current_player) THEN Some(states[i])
    ELSE find_first(states, x, y, current_player, i + 1)

\* ensure_children().iter_mut().find(|s| ..): the first child from position
\* i on with the mover's mark at (x, y), as an Option.
RECURSIVE chosen_child(_, _, _, _, _)
chosen_child(children, x, y, current_player, i) ==
    IF i > Len(children) THEN None
    ELSE IF is_chosen(children[i].state, x, y, current_player) THEN Some(children[i])
    ELSE chosen_child(children, x, y, current_player, i + 1)

\* .unwrap(); assert_ne!(s.score(), 0); MiniMaxNode::new(s, next_player)
fallback_result(residue, s, current_player) ==
    IF IsNone(s)
    THEN [result |-> "", panic |-> "unwrap", fallback |-> TRUE, node |-> residue]
    ELSE IF score(Unwrap(s)) = 0
    THEN [result |-> "", panic |-> "assert_ne", fallback |-> TRUE, node |-> residue]
    ELSE [result |-> "Ok", panic |-> "", fallback |-> TRUE,
          node |-> MiniMaxNode(Unwrap(s), next_player(current_player))]

\* The None arm of choose(): the child is rebuilt from subsequent_states of
\* the board left in self.current_state by take().
choose_fallback(residue, x, y, current_player) ==
    fallback_result(residue,
                    find_first(subsequent_states(residue.state, current_player),
                               x, y, current_player, 1),
                    current_player)

\* match new_state { None => .., Some(mut new_state) => new_state.take() }
choose_match(new_state, residue, x, y, current_player) ==
    IF IsNone(new_state)
    THEN choose_fallback(residue, x, y, current_player)
    ELSE [result |-> "Ok", panic |-> "", fallback |-> FALSE,
          node |-> take(Unwrap(new_state))]

\* MiniMaxTree::choose: [result, panic, fallback, node], node being
\* self.current_state when the call returns (or unwinds) and fallback telling
\* whether the None arm of the match was run.
choose(self, x, y) ==
    IF choose_refused(self, x, y)
    THEN refusal(self)
    ELSE choose_match(chosen_child(Unwrap(ensure_children(take(self)).children),
                                   x, y, self.player, 1),
                      after_take(self), x, y, self.player)

\* &mut children[index]; self.current_state = new_state.take()
index_children(children, index, residue) ==
    IF index >= Len(children)
    THEN [panic |-> "index", node |-> residue]
    ELSE [panic |-> "", node |-> take(children[index + 1])]

\* choose_with_index taking the child after the one asked for.
choose_with_index_off_by_one(self, index) ==
    index_children(Unwrap(ensure_children(take(self)).children), index + 1,
                   after_take(self))

\* MiniMaxTree::choose_with_index: indexing the slice panics out of bounds.
choose_with_index(self, index) ==
    index_children(Unwrap(ensure_children(take(self)).children), index,
                   after_take(self))

\* The value of find_move_index without debug assertions: one search.
unchecked_result(pruning) ==
    [move |-> pruning.move, panic |-> "", node |-> pruning.node,
     checked |-> FALSE,
     nodes_visited_pruning |-> pruning.visited,
     move_without_pruning |-> None,
     nodes_visited_without_pruning |-> 0]

\* assert_eq!(move_pruning, move_without_pruning);
\* assert!(nodes_visited_pruning <= nodes_visited_without_pruning);
checked_result(pruning, without) ==
    [move |-> pruning.move,
     panic |-> IF pruning.move # without.move THEN "assert_eq"
               ELSE IF ~(pruning.visited <= without.visited) THEN "assert"
               ELSE "",
     node |-> without.node,
     checked |-> TRUE,
     nodes_visited_pruning |-> pruning.visited,
     move_without_pruning |-> without.move,
     nodes_visited_without_pruning |-> without.visited]

\* find_move_index after the search with pruning has returned.
after_pruning(pruning, max_depth, debug) ==
    IF debug
    THEN checked_result(pruning,
                        find_move_index_internal(pruning.node, max_depth, FALSE))
    ELSE unchecked_result(pruning)

\* MiniMaxTree::find_move_index.  With debug assertions the search runs a
\* second time without pruning on the tree the first run left behind, and
\* the two results are asserted to agree.
find_move_index(self, max_depth, debug) ==
    after_pruning(find_move_index_internal(self, max_depth, TRUE), max_depth, debug)

(***************************************************************************)
(* The engine as a state machine                                           *)
(*                                                                         *)
(* The engine is driven by one synchronous caller.  A call is one step;    *)
(* it leaves the call and what it returned in last.  The caller then       *)
(* either passes the index a search returned to choose_with_index, as      *)
(* handle_click does, or drops the returned value and is free to make the  *)
(* next call.                                                              *)
(***************************************************************************)
\* Largest max_depth handed to find_move_index.
MaxDepth == 2

VARIABLES
    current_state,      \* MiniMaxTree.current_state
    debug_assertions,   \* cfg!(debug_assertions) of the build
    panic,              \* "" while running, else the panic that ended the run
    last                \* the call that has just returned and its result

vars == <<current_state, debug_assertions, panic, last>>

\* MiniMaxTree::new
new(player) == MiniMaxNode(initial, player)

\* No call result is held by the caller.
Idle == [op |-> "none"]

\* main(): the tree is built with CheckBox::X to move.
Init ==
    /\ current_state = new(X)
    /\ debug_assertions \in BOOLEAN
    /\ panic = ""
    /\ last = Idle

Choose(x, y) ==
    /\ panic = ""
    /\ last = Idle
    /\ \E r \in {choose(current_state, x, y)} :
           /\ current_state' = r.node
           /\ panic' = r.panic
           /\ last' = [op |-> "choose", x |-> x, y |-> y, result |-> r.result,
                       fallback |-> r.fallback]
    /\ UNCHANGED debug_assertions

FindMoveIndex(max_depth) ==
    /\ panic = ""
    /\ last = Idle
    /\ \E r \in {find_move_index(current_state, max_depth, debug_assertions)} :
           /\ current_state' = r.node
           /\ panic' = r.panic
           /\ last' = [op |-> "find_move_index",
                       max_depth |-> max_depth,
                       move |-> r.move,
                       checked |-> r.checked,
                       nodes_visited_pruning |-> r.nodes_visited_pruning,
                       move_without_pruning |-> r.move_without_pruning,
                       nodes_visited_without_pruning |-> r.nodes_visited_without_pruning]
    /\ UNCHANGED debug_assertions

\* if let Some(index) = tree.find_move_index(max_depth) {
\*     tree.choose_with_index(index); }
ChooseWithIndex ==
    /\ panic = ""
    /\ last.op = "find_move_index"
    /\ IsSome(last.move)
    /\ \E r \in {choose_with_index(current_state, Unwrap(last.move))} :
           /\ current_state' = r.node
           /\ panic' = r.panic
           /\ last' = [op |-> "choose_with_index", index |-> Unwrap(last.move)]
    /\ UNCHANGED debug_assertions

\* The caller drops what the last call returned.
Return ==
    /\ panic = ""
    /\ last # Idle
    /\ last' = Idle
    /\ UNCHANGED <<current_state, debug_assertions, panic>>

Next ==
    \/ \E x \in Idx, y \in Idx : Choose(x, y)
    \/ \E max_depth \in 0 .. MaxDepth : FindMoveIndex(max_depth)
    \/ ChooseWithIndex
    \/ Return

Spec == Init /\ [][Next]_vars

(***************************************************************************)
(* Full-depth play: X is played by choose(), first at (0, 0), and every O  *)
(* move is the index find_move_index(9) returns, applied by                *)
(* choose_with_index.                                                      *)
(***************************************************************************)
HumanMove(x, y) ==
    /\ current_state.player = X
    /\ current_state.state = initial => (x = 0 /\ y = 0)
    /\ Choose(x, y)

EngineSearch ==
    /\ current_state.player = O
    /\ FindMoveIndex(FullDepth)

FullDepthNext ==
    \/ \E x \in Idx, y \in Idx : HumanMove(x, y)
    \/ EngineSearch
    \/ ChooseWithIndex
    \/ Return

SpecFullDepth == Init /\ [][FullDepthNext]_vars

(***************************************************************************)
(* main.rs : App::handle_click.  The application drives its engine, built  *)
(* with X to move, through this callback alone; a click runs it to the     *)
(* end.  The text of the depth entry is an Option<usize>: None when it     *)
(* does not parse.                                                         *)
(***************************************************************************)
\* The entries tried: text that is no number, 0, and the largest depth.
DepthInputs == {None, Some(0), Some(MaxDepth)}

\* The depth taken as parsed, without cmp::max(max_depth, 1).
click_max_depth_unclamped(depth_input) ==
    IF IsSome(depth_input) THEN Unwrap(depth_input) ELSE 4

\* .and_then(|s| s.parse::<usize>().ok()).unwrap_or(4), then
\* cmp::max(max_depth, 1).
click_max_depth(depth_input) ==
    Max(IF IsSome(depth_input) THEN Unwrap(depth_input) ELSE 4, 1)

\* What a click leaves behind: the engine node, the panic if any, the result
\* of choose, the board right after the human's choose, and the index the
\* search returned.
click_result(node, panic_, chose, move) ==
    [node |-> node, panic |-> panic_, chosen |-> chose.result,
     human |-> chose.node.state, move |-> move]

\* tree.choose_with_index(index) has run.
click_after_index(chose, found, indexed) ==
    click_result(indexed.node, indexed.panic, chose, found.move)

\* if let Some(index) = tree.find_move_index(max_depth) { .. }
click_after_search(chose, found) ==
    IF found.panic # "" \/ IsNone(found.move)
    THEN click_result(found.node, found.panic, chose, found.move)
    ELSE click_after_index(chose, found,
                           choose_with_index(found.node, Unwrap(found.move)))

\* if tree.choose(x, y).is_err() { return; }, then the opponent's move.
click_after_choose(chose, max_depth, debug) ==
    IF chose.panic # "" \/ chose.result = "Err"
    THEN click_result(chose.node, chose.panic, chose, None)
    ELSE click_after_search(chose, find_move_index(chose.node, max_depth, debug))

handle_click(self, x, y, depth_input, debug) ==
    click_after_choose(choose(self, x, y), click_max_depth(depth_input), debug)

HandleClick(x, y, depth_input) ==
    /\ panic = ""
    /\ \E r \in {handle_click(current_state, x, y, depth_input, debug_assertions)} :
           /\ current_state' = r.node
           /\ panic' = r.panic
           /\ last' = [op |-> "handle_click", x |-> x, y |-> y,
                       depth_input |-> depth_input, chosen |-> r.chosen,
                       human |-> r.human, move |-> r.move]
    /\ UNCHANGED debug_assertions

ClicksNext ==
    \E x \in Idx, y \in Idx, depth_input \in DepthInputs :
        HandleClick(x, y, depth_input)

SpecClicks == Init /\ [][ClicksNext]_vars

(***************************************************************************)
(* score() applied to every 3x3 array of marks, reachable by play or not.  *)
(***************************************************************************)
AllBoards == [1 .. N -> [1 .. N -> CheckBox]]

ScoreInit ==
    /\ current_state \in {MiniMaxNode(b, X) : b \in AllBoards}
    /\ debug_assertions \in BOOLEAN
    /\ panic = ""
    /\ last = Idle

Score ==
    /\ last = Idle
    /\ last' = [op |-> "score", value |-> score(current_state.state)]
    /\ UNCHANGED <<current_state, debug_assertions, panic>>

SpecScore == ScoreInit /\ [][Score]_vars

(***************************************************************************)
(* subsequent_states(player) applied to every 3x3 array of marks, for      *)
(* player X and for player O, and collected.                               *)
(***************************************************************************)
SuccessorsInit ==
    /\ current_state \in {MiniMaxNode(b, p) : b \in AllBoards, p \in {X, O}}
    /\ debug_assertions \in BOOLEAN
    /\ panic = ""
    /\ last = Idle

Successors ==
    /\ last = Idle
    /\ last' = [op |-> "subsequent_states",
                states |-> subsequent_states(current_state.state,
                                             current_state.player)]
    /\ UNCHANGED <<current_state, debug_assertions, panic>>

SpecSuccessors == SuccessorsInit /\ [][Successors]_vars

(***************************************************************************)
(* Vocabulary of the properties                                            *)
(***************************************************************************)
Board == current_state.state

Player == current_state.player

Cells == Idx \X Idx

At(b, c) == get(b, c[1], c[2])

EmptyCells(b) == {c \in Cells : At(b, c) = Empty}

\* Position of a cell in row-major order.
Rank(c) == N * c[1] + c[2]

\* 0-based position of the empty cell c among the empty cells of b.
ChildIndex(b, c) == Cardinality({e \in EmptyCells(b) : Rank(e) < Rank(c)})

Place(b, c, p) == [b EXCEPT ![c[1] + 1][c[2] + 1] = p]

Opponent(p) == IF p = X THEN O ELSE X

\* The eight lines in the order row0, row1, row2, col0, col1, col2,
\* main diagonal, anti-diagonal.
Lines ==
    << <<<<0, 0>>, <<0, 1>>, <<0, 2>>>>,
       <<<<1, 0>>, <<1, 1>>, <<1, 2>>>>,
       <<<<2, 0>>, <<2, 1>>, <<2, 2>>>>,
       <<<<0, 0>>, <<1, 0>>, <<2, 0>>>>,
       <<<<0, 1>>, <<1, 1>>, <<2, 1>>>>,
       <<<<0, 2>>, <<1, 2>>, <<2, 2>>>>,
       <<<<0, 0>>, <<1, 1>>, <<2, 2>>>>,
       <<<<0, 2>>, <<1, 1>>, <<2, 0>>>> >>

Complete(b, line) ==
    /\ At(b, line[1]) # Empty
    /\ At(b, line[2]) = At(b, line[1])
    /\ At(b, line[3]) = At(b, line[1])

CompleteLines(b) == {k \in 1 .. Len(Lines) : Complete(b, Lines[k])}

SetMin(S) == CHOOSE v \in S : \A w \in S : v <= w

SetMax(S) == CHOOSE v \in S : \A w \in S : v >= w

\* The mark of the first complete line in scan order, 0 without one.
FirstLineWeight(b) ==
    IF CompleteLines(b) = {} THEN 0
    ELSE At(b, Lines[SetMin(CompleteLines(b))][1])

\* Textbook depth-limited minimax value of a position, without pruning.
RECURSIVE GameValue(_, _, _)
GameValue(b, p, depth) ==
    IF depth = 0 \/ FirstLineWeight(b) # 0 \/ EmptyCells(b) = {}
    THEN FirstLineWeight(b)
    ELSE LET vals == {GameValue(Place(b, c, p), Opponent(p), depth - 1) :
                      c \in EmptyCells(b)}
         IN  IF p = O THEN SetMax(vals) ELSE SetMin(vals)

NonTerminal(b) == score(b) = 0 /\ EmptyCells(b) # {}

Searched == last.op = "find_move_index"

\* The call that has just returned has committed a move: choose() returned
\* Ok, or choose_with_index() was run on the index of a search.
Committed ==
    \/ last.op = "choose" /\ last.result = "Ok"
    \/ last.op = "choose_with_index" /\ panic = ""

Marks(b, p) == {c \in Cells : At(b, c) = p}

\* The game on board b is over: a line is complete or no cell is empty.
Over(b) == score(b) # 0 \/ EmptyCells(b) = {}

\* Every expanded node of the subtree of n holds the expansion of its board
\* and player: no children when the score is nonzero, else one child per
\* empty cell in row-major order, with the mark of n's player on that cell
\* and the other player to move.
RECURSIVE Coherent(_)
Coherent(n) ==
    IsSome(n.children) =>
        IF score(n.state) # 0
        THEN Unwrap(n.children) = << >>
        ELSE /\ Len(Unwrap(n.children)) = Cardinality(EmptyCells(n.state))
             /\ \A c \in EmptyCells(n.state) :
                   /\ Unwrap(n.children)[ChildIndex(n.state, c) + 1].state
                         = Place(n.state, c, n.player)
                   /\ Unwrap(n.children)[ChildIndex(n.state, c) + 1].player
                         = Opponent(n.player)
                   /\ Coherent(Unwrap(n.children)[ChildIndex(n.state, c) + 1])

\* Node b is node a with, at most, children added to nodes of a that had
\* none: boards and players agree, and a list of children present in a is
\* present in b with the same length and, child by child, the same relation.
RECURSIVE Extends(_, _)
Extends(a, b) ==
    /\ b.state = a.state
    /\ b.player = a.player
    /\ IsSome(a.children) =>
          /\ IsSome(b.children)
          /\ Len(Unwrap(b.children)) = Len(Unwrap(a.children))
          /\ \A i \in 1 .. Len(Unwrap(a.children)) :
                Extends(Unwrap(a.children)[i], Unwrap(b.children)[i])

(***************************************************************************)
(* Properties                                                              *)
(***************************************************************************)
\* C1: on a non-terminal board and for max_depth >= 1, the search with
\* pruning returns the same Option<index> as the search without pruning, so
\* assert_eq!(move_pruning, move_without_pruning) does not fail.
C1_PruningEquivalence ==
    (Searched /\ last.checked /\ last.max_depth >= 1 /\ NonTerminal(Board))
        => /\ last.move = last.move_without_pruning
           /\ panic # "assert_eq"

\* A search of depth >= 2 in which pruning has cut nodes off and both runs
\* have returned a move.
C1_Witness ==
    /\ Searched /\ last.checked /\ last.max_depth >= 2 /\ NonTerminal(Board)
    /\ IsSome(last.move) /\ IsSome(last.move_without_pruning)
    /\ last.nodes_visited_pruning < last.nodes_visited_without_pruning

\* C2: from the empty board with X to move and X's first move at (0, 0),
\* when every O move is the index find_move_index(9) returns, X never
\* completes a line: no reachable board has score -10.
C2_EngineNeverLoses == score(Board) # X

\* A finished game: the board is full after the engine has replied to each
\* of X's moves but the last.
C2_Witness ==
    /\ EmptyCells(Board) = {}
    /\ last.op = "choose" /\ last.result = "Ok"
    /\ score(Board) = 0

\* C3: on a non-terminal board with max_depth >= 1 the returned index is the
\* first child, in row-major order of the empty cells, whose unpruned
\* minimax value at depth max_depth - 1 is the maximum over the children
\* when O is to move, the minimum when X is to move.
C3_FirstOptimalChild ==
    (Searched /\ last.max_depth >= 1 /\ NonTerminal(Board)) =>
        LET val(c) == GameValue(Place(Board, c, Player), Opponent(Player),
                                last.max_depth - 1)
            vals == {val(c) : c \in EmptyCells(Board)}
            best == IF Player = O THEN SetMax(vals) ELSE SetMin(vals)
            optimal == {ChildIndex(Board, c) :
                        c \in {e \in EmptyCells(Board) : val(e) = best}}
        IN  last.move = Some(SetMin(optimal))

\* A search at depth >= 2 whose answer is not the first child, on a board
\* where several children share the best value.
C3_Witness ==
    /\ Searched /\ last.max_depth >= 2 /\ NonTerminal(Board)
    /\ IsSome(last.move) /\ Unwrap(last.move) > 0
    /\ LET val(c) == GameValue(Place(Board, c, Player), Opponent(Player),
                               last.max_depth - 1)
           vals == {val(c) : c \in EmptyCells(Board)}
           best == IF Player = O THEN SetMax(vals) ELSE SetMin(vals)
       IN  Cardinality({e \in EmptyCells(Board) : val(e) = best}) >= 2

\* C4: choose(x, y) returns Err exactly when cell (x, y) of the current
\* board is not Empty or the board's score is nonzero, and Ok otherwise.
C4_ChooseErrExactly ==
    [][last'.op = "choose" =>
          /\ last'.result = "Err" <=>
                (get(Board, last'.x, last'.y) # Empty \/ score(Board) # 0)
          /\ last'.result \in {"Ok", "Err"}]_vars

\* choose() has refused an empty cell because the game is decided.
C4_Witness ==
    /\ last.op = "choose" /\ last.result = "Err"
    /\ get(Board, last.x, last.y) = Empty
    /\ score(Board) # 0

\* C5: when choose(x, y) returns Err, the current node is what it was: its
\* board, its player to move and all its materialized descendants.
C5_ChooseErrUnchanged ==
    [][(last'.op = "choose" /\ last'.result = "Err")
          => current_state' = current_state]_vars

\* choose() has refused a move on a node that holds expanded children, one
\* of which is expanded itself.
C5_Witness ==
    /\ last.op = "choose" /\ last.result = "Err"
    /\ IsSome(current_state.children)
    /\ \E i \in 1 .. Len(Unwrap(current_state.children)) :
          IsSome(Unwrap(current_state.children)[i].children)

\* C6: when choose(x, y) returns Ok, the new board is the old board with
\* only cell (x, y) changed, from Empty to the old player to move, and the
\* player to move is the other player.
C6_ChooseOkEffect ==
    [][(last'.op = "choose" /\ last'.result = "Ok") =>
          /\ get(Board, last'.x, last'.y) = Empty
          /\ Player \in {X, O}
          /\ current_state'.state = Place(Board, <<last'.x, last'.y>>, Player)
          /\ current_state'.player = Opponent(Player)]_vars

\* An accepted move of O at a cell that is not the first empty one.
C6_Witness ==
    /\ last.op = "choose" /\ last.result = "Ok"
    /\ Player = X
    /\ get(Board, last.x, last.y) = O
    /\ \E c \in Cells : Rank(c) < Rank(<<last.x, last.y>>) /\ At(Board, c) = Empty

\* C7: find_move_index returns None when the board has a nonzero score,
\* when the board is full with score 0, and when max_depth is 0.
C7_NoMoveWhenOver ==
    (Searched /\ (score(Board) # 0 \/ EmptyCells(Board) = {} \/ last.max_depth = 0))
        => IsNone(last.move)

\* A search of depth >= 1 on a drawn board (full, score 0) has returned.
C7_Witness ==
    /\ Searched /\ last.max_depth >= 1
    /\ EmptyCells(Board) = {} /\ score(Board) = 0
    /\ IsNone(last.move)

\* C8: an index find_move_index returns is below the number of children of
\* the node (the number of empty cells of a score-0 board); choose_with_index
\* of it does not index out of bounds, puts the mover's mark on the cell
\* that is the index-th empty one in row-major order and flips the player
\* to move.  On a score-0 board with an empty cell and max_depth >= 1 the
\* search returns Some.
C8_IndexValid ==
    [][/\ last'.op = "find_move_index" =>
            /\ IsSome(last'.move) =>
                  /\ score(Board) = 0
                  /\ Unwrap(last'.move) < Cardinality(EmptyCells(Board))
            /\ (NonTerminal(Board) /\ last'.max_depth >= 1) => IsSome(last'.move)
       /\ last'.op = "choose_with_index" =>
            /\ panic' = ""
            /\ \E c \in EmptyCells(Board) :
                  /\ ChildIndex(Board, c) = last'.index
                  /\ current_state'.state = Place(Board, c, Player)
            /\ current_state'.player = Opponent(Player)]_vars

\* choose_with_index has applied a returned index other than 0.
C8_Witness ==
    /\ last.op = "choose_with_index"
    /\ last.index > 0
    /\ panic = ""

\* C9: the search with pruning visits no more nodes than the search without
\* pruning, so assert!(nodes_visited_pruning <= nodes_visited_without_pruning)
\* does not fail.
C9_PruningVisitsNoMore ==
    (Searched /\ last.checked) =>
        /\ last.nodes_visited_pruning <= last.nodes_visited_without_pruning
        /\ panic # "assert"

\* A search in which pruning has visited strictly fewer nodes.
C9_Witness ==
    /\ Searched /\ last.checked
    /\ 0 < last.nodes_visited_pruning
    /\ last.nodes_visited_pruning < last.nodes_visited_without_pruning

\* C10: score() of any 3x3 board is the weight of the first complete line
\* in the order row0, row1, row2, col0, col1, col2, main diagonal,
\* anti-diagonal, is 0 when no line is complete, and is one of -10, 0, 10.
C10_ScoreFirstLine ==
    last.op = "score" =>
        /\ last.value = FirstLineWeight(Board)
        /\ last.value \in {-10, 0, 10}

\* score() has been applied to a board on which a complete line of O comes
\* first in scan order and a complete line of X comes later.
C10_Witness ==
    /\ last.op = "score"
    /\ last.value = O
    /\ \E k \in CompleteLines(Board) : At(Board, Lines[k][1]) = X

\* C11: subsequent_states(player), player being X or O, yields one board per
\* Empty cell of the source board, in row-major order of those cells; the
\* k-th board is the source board with only the k-th empty cell set to
\* player; a full board yields nothing.
C11_SuccessorsRowMajor ==
    last.op = "subsequent_states" =>
        /\ Len(last.states) = Cardinality(EmptyCells(Board))
        /\ \A c \in EmptyCells(Board) :
              last.states[ChildIndex(Board, c) + 1] = Place(Board, c, Player)

\* subsequent_states(X) has been collected on a board whose only empty cells
\* are (0, 0) and (2, 2): two boards, (0, 0) first.
C11_Witness ==
    /\ last.op = "subsequent_states"
    /\ Player = X
    /\ EmptyCells(Board) = {<<0, 0>>, <<2, 2>>}
    /\ last.states = <<Place(Board, <<0, 0>>, X), Place(Board, <<2, 2>>, X)>>

\* C12: across choose, find_move_index and choose_with_index calls a cell of
\* the current board that holds X or O never changes again, and every commit
\* changes exactly one cell, from Empty to X or O.
C12_CellMonotonic ==
    [][/\ \A c \in Cells : At(Board, c) # Empty => At(Board', c) = At(Board, c)
       /\ Committed' =>
             \E c \in EmptyCells(Board) :
                 /\ At(Board', c) \in {X, O}
                 /\ \A d \in Cells \ {c} : At(Board', d) = At(Board, d)
       /\ ~Committed' => Board' = Board]_vars

\* choose_with_index has put a mark on a board that held at least two marks
\* of each player.
C12_Witness ==
    /\ last.op = "choose_with_index" /\ panic = ""
    /\ Cardinality(Marks(Board, X)) >= 3
    /\ Cardinality(Marks(Board, O)) >= 3

\* C13: after a successful choose(x, y) or choose_with_index(i) the current
\* node is the chosen child with the subtree it had before the call, or an
\* unexpanded node when the children of the old current node were first
\* computed by this call; nothing of the siblings is kept.
C13_CommitTransfersSubtree ==
    [][Committed' =>
          \E c \in EmptyCells(Board) :
              /\ current_state'.state = Place(Board, c, Player)
              /\ current_state' =
                    IF IsSome(current_state.children)
                    THEN Unwrap(current_state.children)[ChildIndex(Board, c) + 1]
                    ELSE MiniMaxNode(Place(Board, c, Player), Opponent(Player))]_vars

\* A commit by choose() has made current a child that an earlier search had
\* expanded: the node arrives with its children.
C13_Witness ==
    /\ last.op = "choose" /\ last.result = "Ok"
    /\ IsSome(current_state.children)
    /\ Len(Unwrap(current_state.children)) > 0

\* C14: find_move_index, for any max_depth, leaves the current board and
\* the player to move unchanged, and every node materialized before the call
\* keeps its board, its player and, when it was expanded, its list of
\* children; no node goes from expanded back to unexpanded.
C14_SearchOnlyAddsChildren ==
    [][last'.op = "find_move_index" =>
          /\ Board' = Board
          /\ Player' = Player
          /\ Extends(current_state, current_state')]_vars

\* A search of depth 1 has returned a move on a node one of whose children
\* was expanded by an earlier, deeper search and still is.
C14_Witness ==
    /\ Searched /\ last.max_depth = 1 /\ IsSome(last.move)
    /\ IsSome(current_state.children)
    /\ \E i \in 1 .. Len(Unwrap(current_state.children)) :
          IsSome(Unwrap(current_state.children)[i].children)

\* C15: in every reachable engine state, every materialized node that is
\* expanded has as children the expansion of its board and player: none
\* when the board's score is nonzero, otherwise the row-major successors of
\* the board for the node's player, each with the opposite player to move
\* and each obeying the same rule.
C15_CacheCoherent == Coherent(current_state)

\* The current node is expanded; one of its children is a decided board
\* expanded to no children and another is expanded to its successors.
C15_Witness ==
    /\ IsSome(current_state.children)
    /\ \E i \in 1 .. Len(Unwrap(current_state.children)) :
          /\ score(Unwrap(current_state.children)[i].state) # 0
          /\ Unwrap(current_state.children)[i].children = Some(<< >>)
    /\ \E j \in 1 .. Len(Unwrap(current_state.children)) :
          /\ IsSome(Unwrap(current_state.children)[j].children)
          /\ Len(Unwrap(Unwrap(current_state.children)[j].children)) > 0

\* C16: the None arm of the match in choose() is never run and neither its
\* unwrap() nor its assert_ne!(s.score(), 0) fails: whenever choose(x, y)
\* passes the legality check, the children of the current node hold a child
\* with the mover's mark at (x, y).
C16_FallbackUnreachable ==
    last.op = "choose" =>
        /\ ~last.fallback
        /\ panic = ""
        /\ last.result \in {"Ok", "Err"}

\* choose() has accepted the move that completes a line: the child was found
\* among the children although the game is over after it.
C16_Witness ==
    /\ last.op = "choose" /\ last.result = "Ok" /\ ~last.fallback
    /\ score(Board) # 0

\* C17: for an engine created with X to move, after any sequence of commits
\* the number of X marks minus the number of O marks on the current board is
\* 0 or 1; X is to move exactly when the counts are equal and O exactly when
\* X has one more mark; the player to move is never Empty.
C17_TurnCount ==
    /\ Cardinality(Marks(Board, X)) - Cardinality(Marks(Board, O)) \in {0, 1}
    /\ Player = X <=> Cardinality(Marks(Board, X)) = Cardinality(Marks(Board, O))
    /\ Player = O <=> Cardinality(Marks(Board, X)) = Cardinality(Marks(Board, O)) + 1
    /\ Player # Empty

\* The eighth commit, made by choose_with_index: four marks each and X to
\* move.
C17_Witness ==
    /\ last.op = "choose_with_index" /\ panic = ""
    /\ Cardinality(Marks(Board, X)) = 4
    /\ Cardinality(Marks(Board, O)) = 4
    /\ Player = X

\* C18: every commit leaves one empty cell fewer on the current board, so
\* an engine that starts on the empty board commits at most 9 times; once
\* the board has a nonzero score or no empty cell, every choose returns Err,
\* every find_move_index returns None, and the current board never changes
\* again.
C18_GameEnds ==
    [][/\ Committed' =>
             /\ ~Over(Board)
             /\ Cardinality(EmptyCells(Board')) = Cardinality(EmptyCells(Board)) - 1
       /\ Over(Board) =>
             /\ last'.op = "choose" => last'.result = "Err"
             /\ last'.op = "find_move_index" => IsNone(last'.move)
             /\ last'.op # "choose_with_index"
             /\ Board' = Board
             /\ Over(Board')]_vars

\* A search of depth >= 1 has been refused on a decided board that still has
\* empty cells.
C18_Witness ==
    /\ Searched /\ last.max_depth >= 1 /\ IsNone(last.move)
    /\ score(Board) # 0
    /\ EmptyCells(Board) # {}

\* C19: no current board reachable through choose calls and choose_with_index
\* calls on returned indices holds a complete line of X together with a
\* complete line of O.
C19_NoDoubleWin ==
    ~(/\ \E k \in CompleteLines(Board) : At(Board, Lines[k][1]) = X
      /\ \E k \in CompleteLines(Board) : At(Board, Lines[k][1]) = O)

\* A commit has completed two lines at once, both of the same player.
C19_Witness ==
    /\ Committed
    /\ Cardinality(CompleteLines(Board)) = 2
    /\ \A k \in CompleteLines(Board) : At(Board, Lines[k][1]) = score(Board)

\* C20: for the engine built with X to move and driven by handle_click alone,
\* with any depth input, X is to move or the game is over at the start of
\* every click; a click on a finished game changes nothing; the mark the
\* human's choose places is X and the mark the engine's choose_with_index
\* places is O.
C20_ShellRoles ==
    [][/\ Player = X \/ Over(Board)
       /\ Over(Board) => current_state' = current_state /\ last'.chosen = "Err"
       /\ last'.chosen = "Err" => current_state' = current_state
       /\ last'.chosen = "Ok" =>
             /\ last'.human = Place(Board, <<last'.x, last'.y>>, X)
             /\ IF IsSome(last'.move)
                THEN \E c \in EmptyCells(last'.human) :
                         /\ ChildIndex(last'.human, c) = Unwrap(last'.move)
                         /\ Board' = Place(last'.human, c, O)
                ELSE Board' = last'.human /\ Over(Board')]_vars

\* A click with the depth entry reading 0 has been answered by the engine,
\* and O has at least two marks on the board.
C20_Witness ==
    /\ last.op = "handle_click" /\ last.chosen = "Ok"
    /\ last.depth_input = Some(0)
    /\ IsSome(last.move)
    /\ Cardinality(Marks(Board, O)) >= 2

\* C21: the value find_move_index(max_depth) returns depends only on the
\* current board, the player to move and max_depth, not on the nodes
\* materialized earlier: on any tree it is the value the same search returns
\* on a fresh node of that board and player, so two engines that differ only
\* in their cached subtrees, or two calls in a row, return the same.
C21_MemoTransparent ==
    Searched =>
        last.move = find_move_index(MiniMaxNode(Board, Player), last.max_depth,
                                    debug_assertions).move

\* A search of depth 1 has returned an index other than 0 on a node all of
\* whose children had been expanded by an earlier search of depth 2.
C21_Witness ==
    /\ Searched /\ last.max_depth = 1
    /\ IsSome(last.move) /\ Unwrap(last.move) > 0
    /\ IsSome(current_state.children)
    /\ \A i \in 1 .. Len(Unwrap(current_state.children)) :
          IsSome(Unwrap(current_state.children)[i].children)

====
